---- MODULE Spec2Model ----
(***************************************************************************)
(* A model of filemanager.py: the filesystem mutators (copy, move,         *)
(* delete), the tree walker, the recursive analyzer, the archive codec,    *)
(* the directory lister and the hasher.                                    *)
(* Each command handler is one action over a small filesystem.  The        *)
(* library primitives the handlers call (shutil, pathlib, zipfile,         *)
(* tarfile) are modelled with their POSIX behaviour.                       *)
(***************************************************************************)
EXTENDS Integers, Sequences, FiniteSets, TLC

VARIABLES
    fs,     \* the filesystem: path -> node
    out,    \* the console lines printed by the last command
    cmd,    \* the last command: its arguments, its answers and the filesystem before it
    tree,   \* the nodes display_directory_tree has added, in order
    stats,  \* analyze: its place in the walk and its accumulators
    arch,   \* the archive file: its name, its format and its members in order
    dest,   \* the directory extract has filled: archive name -> node
    listing, \* the items list_directory has returned, in order
    hasher  \* calculate_hash: its place in the file, the bytes fed and its result

vars == <<fs, out, cmd, tree, stats, arch, dest, listing, hasher>>

(***************************************************************************)
(* Filesystem: paths are sequences of names, one or two names deep.        *)
(***************************************************************************)
Names == {"a", "b"}

Paths == {<<n>> : n \in Names} \cup {<<n, m>> : n \in Names, m \in Names}

NoPath == <<>>

\* The number of distinct file contents.
MaxContent == 2

\* The longest list of paths given to one delete.
MaxBatch == 2

Absent == [kind |-> "none", data |-> 0]

DirNode == [kind |-> "dir", data |-> 0]

OtherNode == [kind |-> "other", data |-> 0]

FileNode(c) == [kind |-> "file", data |-> c]

Parent(p) == SubSeq(p, 1, Len(p) - 1)

Base(p) == p[Len(p)]

IsPrefix(p, q) == Len(p) <= Len(q) /\ SubSeq(q, 1, Len(p)) = p

\* q, a path at or below s, moved to the same place at or below d.
Rebase(q, s, d) == d \o SubSeq(q, Len(s) + 1, Len(q))

exists(f, p) == p \in Paths /\ f[p].kind # "none"

is_file(f, p) == p \in Paths /\ f[p].kind = "file"

is_dir(f, p) == p \in Paths /\ f[p].kind = "dir"

\* An entry lives in a directory; a two-deep entry is a file or an empty directory.
WellFormed(f) ==
    \A p \in Paths : Len(p) = 2 /\ f[p].kind # "none" => f[Parent(p)].kind = "dir"

\* The filesystems with file contents 1..c, special nodes at the top level only.
FileSystems(c, childKinds) ==
    LET top == {Absent, DirNode, OtherNode} \cup {FileNode(i) : i \in 1..c}
        below == {n \in {Absent, DirNode} \cup {FileNode(i) : i \in 1..c} :
                     n.kind \in childKinds}
    IN {f \in [Paths -> top \cup below] :
          /\ WellFormed(f)
          /\ \A p \in Paths : f[p] \in (IF Len(p) = 1 THEN top ELSE below)}

Msg(m, p) == [msg |-> m, path |-> p]

Printed(m, p) == \E i \in 1..Len(out) : out[i] = Msg(m, p)

NoCmd ==
    [op |-> "none", src |-> NoPath, dst |-> NoPath, paths |-> <<>>,
     recursive |-> FALSE, force |-> FALSE, answers |-> <<>>, fault |-> 0,
     denied |-> {}, decisions |-> <<>>, max_depth |-> 0, show_hidden |-> FALSE,
     pre |-> <<>>]

NoStats == [pc |-> "idle"]

NoHash == [pc |-> "idle"]

NoListing == [pc |-> "idle"]

NoArchive == [name |-> <<>>, format |-> "none", members |-> <<>>]

(***************************************************************************)
(* Library primitives.  Each returns the filesystem after the call, whether *)
(* the call returned (ok) or raised, and whether its result fits the two   *)
(* levels of Paths.                                                        *)
(***************************************************************************)
Ok(f) == [ok |-> TRUE, fs |-> f, fits |-> TRUE]

Raised(f) == [ok |-> FALSE, fs |-> f, fits |-> TRUE]

NoFit(f) == [ok |-> FALSE, fs |-> f, fits |-> FALSE]

\* Path.unlink.
unlink(f, p, raise) ==
    IF raise \/ ~is_file(f, p) THEN Raised(f)
    ELSE Ok([f EXCEPT ![p] = Absent])

\* shutil.rmtree: the directory and everything below it; raises on a non-directory.
rmtree(f, p, raise) ==
    IF raise \/ ~is_dir(f, p) THEN Raised(f)
    ELSE Ok([q \in Paths |-> IF IsPrefix(p, q) THEN Absent ELSE f[q]])

Below(p) == {q \in Paths : IsPrefix(p, q)}

\* shutil.copy2: into the directory d under s's name, or onto d itself.
copy2(f, s, d, raise) ==
    LET t == IF is_dir(f, d) THEN Append(d, Base(s)) ELSE d IN
    IF raise THEN Raised(f)
    ELSE IF t \notin Paths THEN NoFit(f)
    ELSE IF t = s THEN Raised(f)                                  \* SameFileError
    ELSE IF f[s].kind # "file" \/ f[t].kind = "other" THEN Raised(f) \* SpecialFileError
    ELSE IF f[t].kind = "dir" THEN Raised(f)                      \* IsADirectoryError
    ELSE IF Len(t) = 2 /\ ~is_dir(f, Parent(t)) THEN Raised(f)    \* FileNotFoundError
    ELSE Ok([f EXCEPT ![t] = f[s]])

\* shutil.copytree: d must not exist; its missing parent is created; a special file
\* below s is left out and makes the call raise once the rest is copied.
copytree(f, s, d, raise) ==
    IF raise \/ ~is_dir(f, s) \/ exists(f, d) THEN Raised(f)
    ELSE IF Len(d) = 2 /\ exists(f, Parent(d)) /\ ~is_dir(f, Parent(d)) THEN Raised(f)
    ELSE IF \E q \in Below(s) : exists(f, q) /\ Rebase(q, s, d) \notin Paths THEN NoFit(f)
    ELSE LET g == [q \in Paths |->
                    IF Len(d) = 2 /\ q = Parent(d) THEN DirNode
                    ELSE IF /\ IsPrefix(d, q)
                            /\ Rebase(q, d, s) \in Paths
                            /\ f[Rebase(q, d, s)].kind \in {"file", "dir"}
                         THEN f[Rebase(q, d, s)]
                    ELSE f[q]]
         IN IF \E q \in Below(s) : f[q].kind = "other" THEN Raised(g) ELSE Ok(g)

\* The filesystem with the entry s, and all below it, now at t.
Renamed(f, s, t) ==
    [q \in Paths |->
        IF IsPrefix(t, q) THEN
            IF Rebase(q, t, s) \in Paths THEN f[Rebase(q, t, s)] ELSE Absent
        ELSE IF IsPrefix(s, q) THEN Absent
        ELSE f[q]]

\* os.rename.
rename(f, s, t) ==
    IF s = t THEN Ok(f)
    ELSE IF Len(t) = 2 /\ ~is_dir(f, Parent(t)) THEN Raised(f)        \* ENOENT, ENOTDIR
    ELSE IF IsPrefix(s, t) THEN Raised(f)                            \* EINVAL
    ELSE IF is_dir(f, s) /\ exists(f, t) /\ ~is_dir(f, t) THEN Raised(f) \* ENOTDIR
    ELSE IF ~is_dir(f, s) /\ is_dir(f, t) THEN Raised(f)              \* EISDIR
    ELSE IF is_dir(f, t) /\ (\E q \in Below(t) : q # t /\ exists(f, q)) THEN Raised(f)
    ELSE IF \E q \in Below(s) : exists(f, q) /\ Rebase(q, s, t) \notin Paths THEN NoFit(f)
    ELSE Ok(Renamed(f, s, t))

\* shutil.move: into the directory d under s's name unless that name is taken, or
\* onto d; when os.rename raises, copy and then remove the source.
shutil_move(f, s, d, raise) ==
    IF raise THEN Raised(f)
    ELSE IF is_dir(f, d) /\ s = d THEN Ok(f)
    ELSE IF is_dir(f, d) /\ Append(d, Base(s)) \notin Paths THEN NoFit(f)
    ELSE IF is_dir(f, d) /\ exists(f, Append(d, Base(s))) THEN Raised(f)
    ELSE LET real == IF is_dir(f, d) THEN Append(d, Base(s)) ELSE d
             r == rename(f, s, real)
         IN IF r.ok \/ ~r.fits THEN r
            ELSE IF is_dir(f, s) THEN
                IF IsPrefix(s, real) THEN Raised(f)
                ELSE LET c == copytree(f, s, real, FALSE) IN
                     IF c.ok THEN rmtree(c.fs, s, FALSE) ELSE c
            ELSE LET c == copy2(f, s, real, FALSE) IN
                 IF c.ok THEN unlink(c.fs, s, FALSE) ELSE c

\* A plausible slip: the answer to a prompt is not looked at.
AnswerTakenAsYes(answers, k) == TRUE

Answer(answers, k) == IF k <= Len(answers) THEN answers[k] ELSE FALSE

(***************************************************************************)
(* copy                                                                    *)
(***************************************************************************)
\* A plausible slip: the directory branch without its test of the recursive flag.
CopyOpNoFlagTest(f, s, d, recursive, force, answers, fault) ==
    IF ~exists(f, s) THEN
        [fs |-> f, out |-> <<Msg("src_missing", s)>>, asked |-> 0, calls |-> 0, fits |-> TRUE]
    ELSE IF exists(f, d) /\ ~force /\ ~Answer(answers, 1) THEN
        [fs |-> f, out |-> <<Msg("cancelled", NoPath)>>, asked |-> 1, calls |-> 0,
         fits |-> TRUE]
    ELSE LET asked == IF exists(f, d) /\ ~force THEN 1 ELSE 0 IN
      IF is_file(f, s) THEN
          LET r == copy2(f, s, d, fault = 1) IN
            [fs |-> r.fs,
             out |-> <<Msg("copying_file", s),
                       IF r.ok THEN Msg("copy_ok", NoPath) ELSE Msg("copy_error", NoPath)>>,
             asked |-> asked, calls |-> 1, fits |-> r.fits]
      ELSE IF is_dir(f, s) THEN
          LET r1 == IF exists(f, d) THEN rmtree(f, d, fault = 1) ELSE Ok(f)
              n == IF exists(f, d) THEN 1 ELSE 0
              r2 == IF r1.ok THEN copytree(r1.fs, s, d, fault = n + 1) ELSE r1
          IN [fs |-> r2.fs,
              out |-> <<Msg("copying_dir", s),
                        IF r2.ok THEN Msg("copy_ok", NoPath) ELSE Msg("copy_error", NoPath)>>,
              asked |-> asked, calls |-> IF r1.ok THEN n + 1 ELSE n, fits |-> r2.fits]
      ELSE [fs |-> f, out |-> <<Msg("copy_ok", NoPath)>>, asked |-> asked, calls |-> 0,
            fits |-> TRUE]

\* fault is the library call of the run that the system refuses (0: none); calls
\* counts the library calls made, asked the prompts shown.
CopyOp(f, s, d, recursive, force, answers, fault) ==
    IF ~exists(f, s) THEN
        [fs |-> f, out |-> <<Msg("src_missing", s)>>, asked |-> 0, calls |-> 0, fits |-> TRUE]
    ELSE IF exists(f, d) /\ ~force /\ ~Answer(answers, 1) THEN
        [fs |-> f, out |-> <<Msg("cancelled", NoPath)>>, asked |-> 1, calls |-> 0,
         fits |-> TRUE]
    ELSE LET asked == IF exists(f, d) /\ ~force THEN 1 ELSE 0 IN
      IF is_file(f, s) THEN
          LET r == copy2(f, s, d, fault = 1) IN
            [fs |-> r.fs,
             out |-> <<Msg("copying_file", s),
                       IF r.ok THEN Msg("copy_ok", NoPath) ELSE Msg("copy_error", NoPath)>>,
             asked |-> asked, calls |-> 1, fits |-> r.fits]
      ELSE IF is_dir(f, s) /\ recursive THEN
          LET r1 == IF exists(f, d) THEN rmtree(f, d, fault = 1) ELSE Ok(f)
              n == IF exists(f, d) THEN 1 ELSE 0
              r2 == IF r1.ok THEN copytree(r1.fs, s, d, fault = n + 1) ELSE r1
          IN [fs |-> r2.fs,
              out |-> <<Msg("copying_dir", s),
                        IF r2.ok THEN Msg("copy_ok", NoPath) ELSE Msg("copy_error", NoPath)>>,
              asked |-> asked, calls |-> IF r1.ok THEN n + 1 ELSE n, fits |-> r2.fits]
      ELSE IF is_dir(f, s) THEN
          [fs |-> f, out |-> <<Msg("need_recursive", NoPath)>>, asked |-> asked,
           calls |-> 0, fits |-> TRUE]
      ELSE [fs |-> f, out |-> <<Msg("copy_ok", NoPath)>>, asked |-> asked, calls |-> 0,
            fits |-> TRUE]

(***************************************************************************)
(* move                                                                    *)
(***************************************************************************)
\* A plausible slip: the answer to the overwrite prompt is not looked at.
MoveOpAnswerIgnored(f, s, d, answers, fault) ==
    IF ~exists(f, s) THEN
        [fs |-> f, out |-> <<Msg("src_missing", s)>>, asked |-> 0, calls |-> 0, fits |-> TRUE]
    ELSE LET r == shutil_move(f, s, d, fault = 1) IN
        [fs |-> r.fs,
         out |-> <<Msg("moving", s),
                   IF r.ok THEN Msg("move_ok", NoPath) ELSE Msg("move_error", NoPath)>>,
         asked |-> IF exists(f, d) THEN 1 ELSE 0, calls |-> 1, fits |-> r.fits]

MoveOp(f, s, d, answers, fault) ==
    IF ~exists(f, s) THEN
        [fs |-> f, out |-> <<Msg("src_missing", s)>>, asked |-> 0, calls |-> 0, fits |-> TRUE]
    ELSE IF exists(f, d) /\ ~Answer(answers, 1) THEN
        [fs |-> f, out |-> <<Msg("cancelled", NoPath)>>, asked |-> 1, calls |-> 0,
         fits |-> TRUE]
    ELSE LET r == shutil_move(f, s, d, fault = 1) IN
        [fs |-> r.fs,
         out |-> <<Msg("moving", s),
                   IF r.ok THEN Msg("move_ok", NoPath) ELSE Msg("move_error", NoPath)>>,
         asked |-> IF exists(f, d) THEN 1 ELSE 0, calls |-> 1, fits |-> r.fits]

(***************************************************************************)
(* delete                                                                  *)
(***************************************************************************)
\* A plausible slip: the directory branch without its test of the recursive flag.
DeleteOneAlwaysRecursive(f, p, recursive, raise) ==
    IF is_file(f, p) THEN
        LET r == unlink(f, p, raise) IN
          [fs |-> r.fs,
           out |-> IF r.ok THEN <<Msg("deleted_file", p)>> ELSE <<Msg("error_deleting", p)>>]
    ELSE IF is_dir(f, p) THEN
        LET r == rmtree(f, p, raise) IN
          [fs |-> r.fs,
           out |-> IF r.ok THEN <<Msg("deleted_dir", p)>> ELSE <<Msg("error_deleting", p)>>]
    ELSE [fs |-> f, out |-> <<>>]

\* The try block of the loop, for one confirmed path.
DeleteOne(f, p, recursive, raise) ==
    IF is_file(f, p) THEN
        LET r == unlink(f, p, raise) IN
          [fs |-> r.fs,
           out |-> IF r.ok THEN <<Msg("deleted_file", p)>> ELSE <<Msg("error_deleting", p)>>]
    ELSE IF is_dir(f, p) /\ recursive THEN
        LET r == rmtree(f, p, raise) IN
          [fs |-> r.fs,
           out |-> IF r.ok THEN <<Msg("deleted_dir", p)>> ELSE <<Msg("error_deleting", p)>>]
    ELSE IF is_dir(f, p) THEN [fs |-> f, out |-> <<Msg("need_recursive", p)>>]
    ELSE [fs |-> f, out |-> <<>>]

\* The loop over paths, from position i on; asked counts the prompts shown and dec
\* records, per position, whether the path was missing, declined or gone ahead with.
RECURSIVE DeleteLoop(_, _, _, _, _, _, _, _, _, _)
DeleteLoop(f, o, dec, paths, i, recursive, force, answers, asked, denied) ==
    IF i > Len(paths) THEN [fs |-> f, out |-> o, decisions |-> dec, asked |-> asked]
    ELSE LET p == paths[i] IN
      IF ~exists(f, p) THEN
          DeleteLoop(f, Append(o, Msg("not_exist", p)), Append(dec, "missing"),
                     paths, i + 1, recursive, force, answers, asked, denied)
      ELSE IF ~force /\ ~Answer(answers, asked + 1) THEN
          DeleteLoop(f, Append(o, Msg("skipped", p)), Append(dec, "declined"),
                     paths, i + 1, recursive, force, answers, asked + 1, denied)
      ELSE LET r == DeleteOne(f, p, recursive, p \in denied) IN
           DeleteLoop(r.fs, o \o r.out, Append(dec, "go"), paths, i + 1, recursive,
                      force, answers, IF force THEN asked ELSE asked + 1, denied)

DeleteOp(f, paths, recursive, force, answers, denied) ==
    IF paths = <<>> THEN
        [fs |-> f, out |-> <<Msg("no_paths", NoPath)>>, decisions |-> <<>>, asked |-> 0]
    ELSE DeleteLoop(f, <<>>, <<>>, paths, 1, recursive, force, answers, 0, denied)

\* The paths on which delete calls unlink or rmtree.
Attempted(pre, paths, decisions, recursive) ==
    {paths[i] : i \in {j \in 1..Len(paths) :
        /\ decisions[j] = "go"
        /\ (is_file(pre, paths[j]) \/ (is_dir(pre, paths[j]) /\ recursive))}}

Batches == UNION {[1..n -> Paths] : n \in 0..MaxBatch}

\* The answers typed at the prompts of one run, in order.
AnswerStreams(n) == UNION {[1..k -> BOOLEAN] : k \in 0..n}

Range(s) == {s[i] : i \in 1..Len(s)}

\* A process runs one command and exits.
Fresh == cmd.op = "none"

Delete ==
    /\ Fresh
    /\ \E paths \in Batches, recursive \in BOOLEAN, force \in BOOLEAN :
       \E answers \in (IF force THEN {<<>>} ELSE AnswerStreams(Len(paths))),
          denied \in {{}} \cup {{p} : p \in Range(paths)} :
          LET r == DeleteOp(fs, paths, recursive, force, answers, denied) IN
            /\ r.asked = Len(answers)
            /\ denied \subseteq Attempted(fs, paths, r.decisions, recursive)
            /\ fs' = r.fs
            /\ out' = r.out
            /\ cmd' = [NoCmd EXCEPT !.op = "delete", !.paths = paths,
                          !.recursive = recursive, !.force = force,
                          !.answers = answers, !.denied = denied,
                          !.decisions = r.decisions, !.pre = fs]
            /\ UNCHANGED <<tree, stats, arch, dest, listing, hasher>>

InitDelete ==
    /\ fs \in FileSystems(1, {"none", "file"})
    /\ out = <<>>
    /\ cmd = NoCmd
    /\ tree = <<>>
    /\ stats = NoStats
    /\ arch = NoArchive
    /\ dest = <<>>
    /\ listing = NoListing
    /\ hasher = NoHash

NextDelete == Delete

SpecDelete == InitDelete /\ [][NextDelete]_vars

Copy ==
    /\ Fresh
    /\ \E s \in Paths, d \in Paths, recursive \in BOOLEAN, force \in BOOLEAN,
          answers \in AnswerStreams(1), fault \in 0..2 :
          LET r == CopyOp(fs, s, d, recursive, force, answers, fault) IN
            /\ r.fits
            /\ r.asked = Len(answers)
            /\ fault <= r.calls
            /\ fs' = r.fs
            /\ out' = r.out
            /\ cmd' = [NoCmd EXCEPT !.op = "copy", !.src = s, !.dst = d,
                          !.recursive = recursive, !.force = force,
                          !.answers = answers, !.fault = fault, !.pre = fs]
            /\ UNCHANGED <<tree, stats, arch, dest, listing, hasher>>

Move ==
    /\ Fresh
    /\ \E s \in Paths, d \in Paths, answers \in AnswerStreams(1), fault \in 0..1 :
          LET r == MoveOp(fs, s, d, answers, fault) IN
            /\ r.fits
            /\ r.asked = Len(answers)
            /\ fault <= r.calls
            /\ fs' = r.fs
            /\ out' = r.out
            /\ cmd' = [NoCmd EXCEPT !.op = "move", !.src = s, !.dst = d,
                          !.answers = answers, !.fault = fault, !.pre = fs]
            /\ UNCHANGED <<tree, stats, arch, dest, listing, hasher>>

Init ==
    /\ fs \in FileSystems(MaxContent, {"none", "file", "dir"})
    /\ out = <<>>
    /\ cmd = NoCmd
    /\ tree = <<>>
    /\ stats = NoStats
    /\ arch = NoArchive
    /\ dest = <<>>
    /\ listing = NoListing
    /\ hasher = NoHash

Next == Copy \/ Move

Spec == Init /\ [][Next]_vars

(***************************************************************************)
(* The tree walker.  Names are sequences of character codes, so that        *)
(* startswith('.') and lower() are computed; the directory walked is one of *)
(* the trees over TreePaths, three levels deep.                            *)
(***************************************************************************)
\* The largest --depth tried.
MaxK == 2

NameLowerA == <<97>>

NameUpperB == <<66>>

NameDotH == <<46, 104>>

Root == <<>>

TreePaths ==
    {<<NameUpperB>>, <<NameLowerA>>, <<NameDotH>>,
     <<NameLowerA, NameLowerA>>, <<NameLowerA, NameDotH>>, <<NameDotH, NameLowerA>>,
     <<NameLowerA, NameLowerA, NameLowerA>>}

\* A directory is "dir", or "locked" when listing it raises PermissionError; a
\* locked directory has its entries all the same.
TreeKinds == {"none", "file", "dir", "locked"}

Trees ==
    {f \in [TreePaths \cup {Root} -> TreeKinds] :
        /\ f[Root] \in {"dir", "locked"}
        /\ \A p \in TreePaths : f[p] # "none" => f[Parent(p)] \in {"dir", "locked"}}

\* str.startswith('.')
startswith_dot(name) == Len(name) > 0 /\ name[1] = 46

\* str.lower(), on ASCII codes
lower(name) == [i \in 1..Len(name) |->
                  IF name[i] >= 65 /\ name[i] <= 90 THEN name[i] + 32 ELSE name[i]]

\* Python's order on strings.
RECURSIVE StrLess(_, _)
StrLess(x, y) ==
    IF y = <<>> THEN FALSE
    ELSE IF x = <<>> THEN TRUE
    ELSE IF Head(x) # Head(y) THEN Head(x) < Head(y)
    ELSE StrLess(Tail(x), Tail(y))

\* The sort key (x.is_file(), x.name.lower()) of line 117, compared as tuples.
TreeKeyLess(f, p, q) ==
    LET pf == f[p] = "file"
        qf == f[q] = "file"
    IN IF pf # qf THEN qf ELSE StrLess(lower(Base(p)), lower(Base(q)))

\* sorted(current_path.iterdir(), key=...): the entries of dir, least key first.
RECURSIVE SortedBy(_, _)
SortedBy(f, S) ==
    IF S = {} THEN <<>>
    ELSE LET m == CHOOSE x \in S : \A y \in S \ {x} : TreeKeyLess(f, x, y)
         IN <<m>> \o SortedBy(f, S \ {m})

iterdir(f, dir) == {p \in TreePaths : Parent(p) = dir /\ f[p] # "none"}

TreeNode(p, depth, kind) == [path |-> p, depth |-> depth, kind |-> kind]

\* A plausible slip: the depth test of line 112 off by one.
DepthReachedLate(current_depth, max_depth) == current_depth > max_depth

\* The test of line 112.
DepthReached(current_depth, max_depth) == current_depth >= max_depth

\* add_tree_items, and its loop over the sorted items from position i on.
RECURSIVE add_tree_items(_, _, _, _, _)
RECURSIVE AddItems(_, _, _, _, _, _)
\* A plausible slip: a directory that cannot be listed ends the walk of the
\* directory it stands in.
AddItemsAborting(f, items, i, current_depth, max_depth, show_hidden) ==
    IF i > Len(items) THEN <<>>
    ELSE LET item == items[i]
             rest == AddItems(f, items, i + 1, current_depth, max_depth, show_hidden)
         IN IF ~show_hidden /\ startswith_dot(Base(item)) THEN rest
            ELSE IF f[item] = "locked" THEN
                <<TreeNode(item, current_depth, "dir")>>
                \o add_tree_items(f, item, current_depth + 1, max_depth, show_hidden)
            ELSE IF f[item] = "dir" THEN
                <<TreeNode(item, current_depth, "dir")>>
                \o add_tree_items(f, item, current_depth + 1, max_depth, show_hidden)
                \o rest
            ELSE <<TreeNode(item, current_depth, "file")>> \o rest

add_tree_items(f, current_path, current_depth, max_depth, show_hidden) ==
    IF DepthReached(current_depth, max_depth) THEN <<>>
    ELSE IF f[current_path] = "locked" THEN
        <<TreeNode(current_path, current_depth, "denied")>>
    ELSE AddItems(f, SortedBy(f, iterdir(f, current_path)), 1, current_depth,
                  max_depth, show_hidden)

AddItems(f, items, i, current_depth, max_depth, show_hidden) ==
    IF i > Len(items) THEN <<>>
    ELSE LET item == items[i]
             rest == AddItems(f, items, i + 1, current_depth, max_depth, show_hidden)
         IN IF ~show_hidden /\ startswith_dot(Base(item)) THEN rest
            ELSE IF f[item] \in {"dir", "locked"} THEN
                <<TreeNode(item, current_depth, "dir")>>
                \o add_tree_items(f, item, current_depth + 1, max_depth, show_hidden)
                \o rest
            ELSE <<TreeNode(item, current_depth, "file")>> \o rest

\* display_directory_tree: the tree command on the directory Root.
Tree ==
    /\ Fresh
    /\ \E max_depth \in 0..MaxK, show_hidden \in BOOLEAN :
          /\ tree' = add_tree_items(fs, Root, 0, max_depth, show_hidden)
          /\ cmd' = [NoCmd EXCEPT !.op = "tree", !.max_depth = max_depth,
                        !.show_hidden = show_hidden, !.pre = fs]
    /\ UNCHANGED <<fs, out, stats, arch, dest, listing, hasher>>

InitTree ==
    /\ fs \in Trees
    /\ out = <<>>
    /\ cmd = NoCmd
    /\ tree = <<>>
    /\ stats = NoStats
    /\ arch = NoArchive
    /\ dest = <<>>
    /\ listing = NoListing
    /\ hasher = NoHash

NextTree == Tree

SpecTree == InitTree /\ [][NextTree]_vars

(***************************************************************************)
(* Claims about the tree walker.                                           *)
(***************************************************************************)
TreeRan == cmd.op = "tree"

TreeNodes == {tree[i] : i \in 1..Len(tree)}

\* The entries the walk may show: no hidden name on the way unless hidden entries
\* are shown, and every directory above them listable.
Shown(p) ==
    /\ p \in TreePaths /\ fs[p] # "none"
    /\ \A i \in 1..Len(p) : cmd.show_hidden \/ ~startswith_dot(p[i])
    /\ \A i \in 0..(Len(p) - 1) : fs[SubSeq(p, 1, i)] = "dir"

\* C2: the tree built for a maximum depth k >= 0, with either hidden setting, has
\* no node deeper than k, depth counted from 0 at the root's children; a directory
\* at the boundary, depth k - 1, is listed as an entry when the walk reaches it and
\* no child is added under it.
C2_TreeDepthBounded ==
    TreeRan =>
        /\ \A n \in TreeNodes : n.depth <= cmd.max_depth
        /\ \A n \in TreeNodes :
              n.depth = (IF n.kind = "denied" THEN Len(n.path) ELSE Len(n.path) - 1)
        /\ \A p \in TreePaths :
              Shown(p) /\ fs[p] \in {"dir", "locked"} /\ Len(p) = cmd.max_depth =>
                /\ TreeNode(p, cmd.max_depth - 1, "dir") \in TreeNodes
                /\ \A n \in TreeNodes : ~(n.path # p /\ IsPrefix(p, n.path))
                /\ TreeNode(p, cmd.max_depth, "denied") \notin TreeNodes

\* A walk with maximum depth 1 over a directory holding a subdirectory that holds an
\* entry of its own: the subdirectory is listed and the entry is not.
C2_Witness ==
    /\ TreeRan /\ cmd.max_depth = 1
    /\ \E p \in TreePaths :
          /\ Len(p) = 2 /\ Shown(p)
          /\ TreeNode(Parent(p), 0, "dir") \in TreeNodes
          /\ \A n \in TreeNodes : n.path # p

(***************************************************************************)
(* The recursive analyzer: one action per entry that rglob yields, then the *)
(* sort and the truncation once the walk is over.                          *)
(***************************************************************************)
\* The most regular files, directories and skipped entries in one walk.
MaxFiles == 11

MaxDirs == 1

MaxSkipped == 1

\* largest_files[:10] and sorted_types[:15]
TopFiles == 10

TopTypes == 15

SuffixUpperPY == <<46, 80, 89>>

NoSuffix == <<>>

\* The string 'no extension'.
NoExtension == <<110, 111, 32, 101, 120, 116, 101, 110, 115, 105, 111, 110>>

\* The regular files a walk may meet: suffix and size.
FileKinds == {[suffix |-> SuffixUpperPY, size |-> 1], [suffix |-> NoSuffix, size |-> 2]}

\* item.suffix.lower() or 'no extension'
ExtOf(suffix) == IF lower(suffix) = <<>> THEN NoExtension ELSE lower(suffix)

\* file_types.get(ext, 0) + 1
Bump(file_types, ext) ==
    IF ext \in DOMAIN file_types THEN [file_types EXCEPT ![ext] = @ + 1]
    ELSE [e \in DOMAIN file_types \cup {ext} |->
            IF e = ext THEN 1 ELSE file_types[e]]

\* list.sort(key=..., reverse=True), keys[i] being the key of seq[i]: stable, so
\* entries of equal key keep their order.
RECURSIVE SortDescending(_, _)
SortDescending(seq, keys) ==
    IF seq = <<>> THEN <<>>
    ELSE LET n == Len(seq)
             front == SortDescending(SubSeq(seq, 1, n - 1), SubSeq(keys, 1, n - 1))
             k == Cardinality({i \in 1..(n - 1) : keys[i] >= keys[n]})
         IN SubSeq(front, 1, k) \o <<seq[n]>> \o SubSeq(front, k + 1, n - 1)

Truncate(seq, n) == SubSeq(seq, 1, IF Len(seq) < n THEN Len(seq) ELSE n)

\* The keys of the lambdas of lines 579 and 602.
SizesOf(seq) == [i \in 1..Len(seq) |-> seq[i].size]

CountsOf(seq) == [i \in 1..Len(seq) |-> seq[i].count]

RECURSIVE SetToSeq(_)
SetToSeq(S) == IF S = {} THEN <<>>
               ELSE LET x == CHOOSE y \in S : TRUE IN <<x>> \o SetToSeq(S \ {x})

Scanning == stats.pc = "scan"

\* A regular file whose size is read: lines 560-570.  The item appended is named by
\* its rank among the files appended, which is the order the walk met them in.
ScanFile ==
    /\ Scanning /\ stats.total_files < MaxFiles
    /\ \E k \in FileKinds :
          stats' = [stats EXCEPT
                      !.total_files = @ + 1,
                      !.total_size = @ + k.size,
                      !.file_types = Bump(@, ExtOf(k.suffix)),
                      !.largest_files = Append(@, [item |-> Len(@) + 1, size |-> k.size])]
    /\ UNCHANGED <<fs, out, cmd, tree, arch, dest, listing, hasher>>

\* A regular file whose stat() raises OSError after is_file() answered: lines 560-562,
\* then 575.
ScanFileStatRaises ==
    /\ Scanning /\ stats.total_files < MaxFiles /\ stats.stat_raised < MaxSkipped
    /\ stats' = [stats EXCEPT !.total_files = @ + 1, !.stat_raised = @ + 1]
    /\ UNCHANGED <<fs, out, cmd, tree, arch, dest, listing, hasher>>

\* A directory: lines 572-573.
ScanDir ==
    /\ Scanning /\ stats.total_dirs < MaxDirs
    /\ stats' = [stats EXCEPT !.total_dirs = @ + 1]
    /\ UNCHANGED <<fs, out, cmd, tree, arch, dest, listing, hasher>>

\* An entry for which is_file() or is_dir() raises, or that is neither: lines 575-576.
ScanSkipped ==
    /\ Scanning /\ stats.skipped < MaxSkipped
    /\ stats' = [stats EXCEPT !.skipped = @ + 1]
    /\ UNCHANGED <<fs, out, cmd, tree, arch, dest, listing, hasher>>

\* The walk is over: lines 578-580, and the report's figures of lines 591 and 602.
Finish ==
    /\ Scanning
    /\ stats' = [stats EXCEPT
                    !.pc = "done",
                    !.largest_files = Truncate(SortDescending(@, SizesOf(@)), TopFiles),
                    !.sorted_types =
                        LET items == SetToSeq({[ext |-> e, count |-> stats.file_types[e]] :
                                                  e \in DOMAIN stats.file_types})
                        IN Truncate(SortDescending(items, CountsOf(items)), TopTypes),
                    !.average = IF stats.total_files > 0
                                THEN stats.total_size \div stats.total_files ELSE 0]
    /\ UNCHANGED <<fs, out, cmd, tree, arch, dest, listing, hasher>>

InitAnalyze ==
    /\ fs = <<>>
    /\ out = <<>>
    /\ cmd = [NoCmd EXCEPT !.op = "analyze"]
    /\ tree = <<>>
    /\ stats = [pc |-> "scan", total_files |-> 0, total_dirs |-> 0, total_size |-> 0,
                file_types |-> <<>>, largest_files |-> <<>>, sorted_types |-> <<>>,
                average |-> 0, skipped |-> 0, stat_raised |-> 0]
    /\ arch = NoArchive
    /\ dest = <<>>
    /\ listing = NoListing
    /\ hasher = NoHash

NextAnalyze == ScanFile \/ ScanFileStatRaises \/ ScanDir \/ ScanSkipped \/ Finish

SpecAnalyze == InitAnalyze /\ [][NextAnalyze]_vars

(***************************************************************************)
(* Claims about the analyzer.                                              *)
(***************************************************************************)
AnalyzeDone == stats.pc = "done"

RECURSIVE SumCounts(_, _)
SumCounts(file_types, exts) ==
    IF exts = {} THEN 0
    ELSE LET e == CHOOSE x \in exts : TRUE
         IN file_types[e] + SumCounts(file_types, exts \ {e})

Min(a, b) == IF a < b THEN a ELSE b

\* C3: once analyze has finished its walk, whatever entries failed on the way, the
\* counts of the extension histogram add up to the total file count.
C3_HistogramSumsToFiles ==
    AnalyzeDone =>
        SumCounts(stats.file_types, DOMAIN stats.file_types) = stats.total_files

\* C4: once analyze has finished, the largest-files list holds exactly
\* min(10, total file count) entries, sizes never increasing, and files of equal
\* size in the order the walk met them.
C4_LargestFiles ==
    AnalyzeDone =>
        /\ Len(stats.largest_files) = Min(TopFiles, stats.total_files)
        /\ \A i \in 1..Len(stats.largest_files), j \in 1..Len(stats.largest_files) :
              i < j =>
                /\ stats.largest_files[i].size >= stats.largest_files[j].size
                /\ stats.largest_files[i].size = stats.largest_files[j].size
                      => stats.largest_files[i].item < stats.largest_files[j].item

(***************************************************************************)
(* The archive codec.  An archive is the sequence of its members, each an  *)
(* archive name and a node; extraction writes them in order, a later member *)
(* replacing an earlier one of the same name.                              *)
(***************************************************************************)
\* The longest list of inputs given to one archive.
MaxInputs == 2

Formats == {"zip", "tar", "tar.gz"}

\* 'x.zip', 'x.tar', 'x.tar.gz', 'x.tgz' and 'x.rar'
ArchiveNames ==
    {<<120, 46, 122, 105, 112>>, <<120, 46, 116, 97, 114>>,
     <<120, 46, 116, 97, 114, 46, 103, 122>>, <<120, 46, 116, 103, 122>>,
     <<120, 46, 114, 97, 114>>}

DotZip == <<46, 122, 105, 112>>

DotTar == <<46, 116, 97, 114>>

DotTarGz == <<46, 116, 97, 114, 46, 103, 122>>

DotTgz == <<46, 116, 103, 122>>

\* str.endswith
endswith(str, suffix) ==
    /\ Len(suffix) <= Len(str)
    /\ SubSeq(str, Len(str) - Len(suffix) + 1, Len(str)) = suffix

Member(name, node) == [name |-> name, node |-> node]

\* Writing the entries of todo, in order, into the archive; reading a file in
\* unreadable raises, and what was written before stays written.
RECURSIVE WriteAll(_, _, _, _)
WriteAll(f, todo, i, unreadable) ==
    IF i > Len(todo) THEN [ok |-> TRUE, members |-> <<>>]
    ELSE IF f[todo[i].src].kind = "file" /\ todo[i].src \in unreadable THEN
        [ok |-> FALSE, members |-> <<>>]
    ELSE LET rest == WriteAll(f, todo, i + 1, unreadable) IN
         [ok |-> rest.ok,
          members |-> <<Member(todo[i].name, f[todo[i].src])>> \o rest.members]

\* path.rglob('*'): the entries below path.
rglob(f, path) == {q \in Below(path) : q # path /\ exists(f, q)}

\* file.relative_to(path.parent)
relative_to_parent(q, path) == SubSeq(q, Len(path), Len(q))

\* Lines 416-421: what the zip branch writes for one existing input.
ZipOne(f, path, unreadable) ==
    IF is_file(f, path) THEN
        WriteAll(f, <<[name |-> <<Base(path)>>, src |-> path]>>, 1, unreadable)
    ELSE IF is_dir(f, path) THEN
        WriteAll(f, SetToSeq({[name |-> relative_to_parent(q, path), src |-> q] :
                                 q \in {x \in rglob(f, path) : is_file(f, x)}}),
                 1, unreadable)
    ELSE [ok |-> TRUE, members |-> <<>>]

\* Line 432, tf.add(path, path.name): the entry and, for a directory, all below it.
TarOne(f, path, unreadable) ==
    WriteAll(f, <<[name |-> <<Base(path)>>, src |-> path]>>
                \o SetToSeq({[name |-> relative_to_parent(q, path), src |-> q] :
                                q \in rglob(f, path)}),
             1, unreadable)

\* The loop over files of lines 413-424 and 429-435, from position i on; an
\* exception leaves the loop for the handler of line 439.
RECURSIVE ArchiveLoop(_, _, _, _, _)
ArchiveLoop(f, files, i, format, unreadable) ==
    IF i > Len(files) THEN [ok |-> TRUE, members |-> <<>>, out |-> <<>>]
    ELSE IF ~exists(f, files[i]) THEN
        LET rest == ArchiveLoop(f, files, i + 1, format, unreadable) IN
          [ok |-> rest.ok, members |-> rest.members,
           out |-> <<Msg("skipped_not_found", files[i])>> \o rest.out]
    ELSE LET r == IF format = "zip" THEN ZipOne(f, files[i], unreadable)
                  ELSE TarOne(f, files[i], unreadable)
         IN IF ~r.ok THEN [ok |-> FALSE, members |-> r.members, out |-> <<>>]
            ELSE LET rest == ArchiveLoop(f, files, i + 1, format, unreadable) IN
              [ok |-> rest.ok, members |-> r.members \o rest.members,
               out |-> <<Msg("added", files[i])>> \o rest.out]

Inputs == UNION {[1..n -> Paths] : n \in 0..MaxInputs}

\* The files of the inputs that the archive would read.
FilesRead(f, files) ==
    {q \in Paths : is_file(f, q) /\ \E i \in 1..Len(files) : IsPrefix(files[i], q)}

\* archive: lines 400-440.
Archive ==
    /\ Fresh
    /\ \E files \in Inputs, format \in Formats, name \in ArchiveNames :
       \E unreadable \in {{}} \cup {{q} : q \in FilesRead(fs, files)} :
          LET r == ArchiveLoop(fs, files, 1, format, unreadable) IN
            /\ IF files = <<>> THEN
                   /\ arch' = arch
                   /\ out' = <<Msg("no_files", NoPath)>>
               ELSE
                   /\ arch' = [name |-> name, format |-> format, members |-> r.members]
                   /\ out' = <<Msg("creating", NoPath)>> \o r.out \o
                             <<IF r.ok THEN Msg("archive_created", NoPath)
                               ELSE Msg("archive_error", NoPath)>>
            /\ cmd' = [NoCmd EXCEPT !.op = "archive", !.paths = files,
                          !.denied = unreadable, !.pre = fs]
    /\ UNCHANGED <<fs, tree, stats, dest, listing, hasher>>

\* extractall into an empty directory: each name gets the node of its last member.
extractall(members) ==
    [n \in {members[i].name : i \in 1..Len(members)} |->
        LET last == CHOOSE i \in 1..Len(members) :
                       /\ members[i].name = n
                       /\ \A j \in 1..Len(members) : members[j].name = n => j <= i
        IN members[last].node]

\* extract: lines 446-471, run after the archive command or with no archive there.
Extract ==
    /\ cmd.op \in {"none", "archive"}
    /\ IF arch = NoArchive THEN
           /\ out' = <<Msg("archive_missing", NoPath)>>
           /\ dest' = dest
       ELSE IF endswith(arch.name, DotZip) THEN
           IF arch.format = "zip" THEN
               /\ dest' = extractall(arch.members)
               /\ out' = <<Msg("extracting", NoPath), Msg("extract_ok", NoPath)>>
           ELSE
               /\ dest' = dest
               /\ out' = <<Msg("extracting", NoPath), Msg("extract_error", NoPath)>>
       ELSE IF \/ endswith(arch.name, DotTar) \/ endswith(arch.name, DotTarGz)
               \/ endswith(arch.name, DotTgz) THEN
           IF arch.format \in {"tar", "tar.gz"} THEN
               /\ dest' = extractall(arch.members)
               /\ out' = <<Msg("extracting", NoPath), Msg("extract_ok", NoPath)>>
           ELSE
               /\ dest' = dest
               /\ out' = <<Msg("extracting", NoPath), Msg("extract_error", NoPath)>>
       ELSE
           /\ dest' = dest
           /\ out' = <<Msg("extracting", NoPath), Msg("unsupported_format", NoPath)>>
    /\ cmd' = [cmd EXCEPT !.op = "extract"]
    /\ UNCHANGED <<fs, tree, stats, arch, listing, hasher>>

InitArchive ==
    /\ fs \in FileSystems(MaxContent, {"none", "file"})
    /\ out = <<>>
    /\ cmd = NoCmd
    /\ tree = <<>>
    /\ stats = NoStats
    /\ arch = NoArchive
    /\ dest = <<>>
    /\ listing = NoListing
    /\ hasher = NoHash

NextArchive == Archive \/ Extract

SpecArchive == InitArchive /\ [][NextArchive]_vars

(***************************************************************************)
(* Claims about the archive codec.                                         *)
(***************************************************************************)
ExtractRan == cmd.op = "extract"

ArchiveRan == cmd.op = "archive"

\* C5: archive-create of two existing files a and b, in any of the three formats,
\* followed by extract into an empty directory, yields a directory holding both a
\* and b, each with the content of the original, also when the two files lie in
\* different directories and share their base name.  Stated for two readable files
\* of different content and an archive name that fits the format.
C5_RoundTrip ==
    /\ ExtractRan /\ Printed("extract_ok", NoPath)
    /\ Len(cmd.paths) = 2 /\ cmd.paths[1] # cmd.paths[2] /\ cmd.denied = {}
    /\ is_file(cmd.pre, cmd.paths[1]) /\ is_file(cmd.pre, cmd.paths[2])
    /\ cmd.pre[cmd.paths[1]] # cmd.pre[cmd.paths[2]]
    => /\ Cardinality(DOMAIN dest) = 2
       /\ \A i \in 1..2 :
             /\ <<Base(cmd.paths[i])>> \in DOMAIN dest
             /\ dest[<<Base(cmd.paths[i])>>] = cmd.pre[cmd.paths[i]]

MemberNames == {arch.members[i].name : i \in 1..Len(arch.members)}

\* C9: archive creation isolates failures per input: a missing input is skipped
\* with a warning, and every existing, readable regular file of the list ends up in
\* the archive, also when an input listed before it could not be added.
C9_ArchivePerInput ==
    ArchiveRan =>
      \A i \in 1..Len(cmd.paths) :
        /\ ~exists(cmd.pre, cmd.paths[i]) => Printed("skipped_not_found", cmd.paths[i])
        /\ is_file(cmd.pre, cmd.paths[i]) /\ cmd.paths[i] \notin cmd.denied =>
              /\ <<Base(cmd.paths[i])>> \in MemberNames
              /\ Printed("added", cmd.paths[i])

(***************************************************************************)
(* Claims about delete.                                                    *)
(***************************************************************************)
DeleteRan == cmd.op = "delete"

Positions == 1..Len(cmd.paths)

\* C1 as stated: in every delete without the recursive flag, a path that is a
\* directory keeps the directory and all of its contents and gets an error naming
\* it, and every other path of the list that is a file is deleted.
C1_AsStated ==
    DeleteRan /\ ~cmd.recursive =>
      \A i \in Positions :
        is_dir(cmd.pre, cmd.paths[i]) =>
          /\ \A q \in Below(cmd.paths[i]) : fs[q] = cmd.pre[q]
          /\ Printed("need_recursive", cmd.paths[i])
          /\ \A j \in Positions \ {i} :
                is_file(cmd.pre, cmd.paths[j]) => ~exists(fs, cmd.paths[j])

\* C1, amended: in every delete without the recursive flag, a path that is a
\* directory stays a directory, with every entry below it that the list does not
\* itself name intact; it gets an error naming it when its deletion is confirmed
\* (force, or the prompt accepted) and a "skipped" notice when it is declined; and
\* every other path of the list is still processed wherever the directory stands:
\* a confirmed file is deleted and reported, or an error naming it is reported when
\* the unlink is refused, and a missing path gets its warning.
C1_DirectoryNeedsRecursive ==
    DeleteRan /\ ~cmd.recursive =>
      \A i \in Positions :
        LET p == cmd.paths[i] IN
        is_dir(cmd.pre, p) =>
          /\ is_dir(fs, p)
          /\ \A q \in Below(p) : q \notin Range(cmd.paths) => fs[q] = cmd.pre[q]
          /\ cmd.decisions[i] = "go" => Printed("need_recursive", p)
          /\ cmd.decisions[i] = "declined" => Printed("skipped", p)
          /\ cmd.decisions[i] # "missing"
          /\ \A j \in Positions \ {i} :
                LET q == cmd.paths[j] IN
                /\ is_file(cmd.pre, q) /\ cmd.decisions[j] = "go" /\ q \notin cmd.denied
                      => ~exists(fs, q) /\ Printed("deleted_file", q)
                /\ is_file(cmd.pre, q) /\ cmd.decisions[j] = "go" /\ q \in cmd.denied
                      => fs[q] = cmd.pre[q] /\ Printed("error_deleting", q)
                /\ ~exists(cmd.pre, q) => Printed("not_exist", q)

\* A delete of a non-empty directory and then a file, both confirmed, without the
\* recursive flag: the directory is refused and the file after it is gone.
C1_Witness ==
    /\ DeleteRan /\ ~cmd.recursive /\ Len(cmd.paths) = 2
    /\ is_dir(cmd.pre, cmd.paths[1])
    /\ \E q \in Below(cmd.paths[1]) : is_file(cmd.pre, q) /\ fs[q] = cmd.pre[q]
    /\ cmd.decisions = <<"go", "go">>
    /\ is_file(cmd.pre, cmd.paths[2]) /\ Len(cmd.paths[2]) = 1
    /\ ~exists(fs, cmd.paths[2])
    /\ Printed("need_recursive", cmd.paths[1])


(***************************************************************************)
(* Claims about copy and move.                                             *)
(***************************************************************************)
CopyRan == cmd.op = "copy"

MoveRan == cmd.op = "move"

Declined == cmd.answers = <<FALSE>>

\* Where copy2 and shutil.move put s: in the directory d under s's name, or at d.
Target(f, s, d) == IF is_dir(f, d) THEN Append(d, Base(s)) ELSE d

\* C6: for a regular file s and a destination d, copy(s, d) and then delete(s) ends
\* in the same filesystem as move(s, d) from the same start, whether d is absent, a
\* file or a directory.  Stated for its plainest case: d lies in an existing
\* directory, s is not the place the file would go, the overwrite prompt (the same
\* one in both runs) and the delete are confirmed and the system refuses nothing.
C6_CopyThenDeleteIsMove ==
    /\ MoveRan /\ is_file(cmd.pre, cmd.src)
    /\ cmd.src # Target(cmd.pre, cmd.src, cmd.dst)
    /\ Len(cmd.dst) = 1 \/ is_dir(cmd.pre, Parent(cmd.dst))
    /\ cmd.pre[cmd.dst].kind \in {"none", "file", "dir"}
    /\ ~Declined /\ cmd.fault = 0
    => LET copied == CopyOp(cmd.pre, cmd.src, cmd.dst, FALSE, FALSE, cmd.answers, 0)
           deleted == DeleteOp(copied.fs, <<cmd.src>>, FALSE, TRUE, <<>>, {})
       IN /\ fs = deleted.fs
          /\ ~exists(fs, cmd.src)
          /\ fs[Target(cmd.pre, cmd.src, cmd.dst)] = cmd.pre[cmd.src]

\* The entry s of the filesystem before is now found at or in d.
Arrived == \E t \in {cmd.dst, Append(cmd.dst, Base(cmd.src))} :
               t \in Paths /\ fs[t] = cmd.pre[cmd.src]

\* C7: copy and move never pass over a failure on the requested path: once the
\* source exists and the run is not cancelled, either success is reported and the
\* source has arrived at the destination (and, for move, left its place), or an error
\* is reported.
C7_NoSilentFailure ==
    /\ CopyRan /\ exists(cmd.pre, cmd.src) /\ ~Printed("cancelled", NoPath) =>
          \/ Printed("copy_ok", NoPath) /\ Arrived
          \/ ~Printed("copy_ok", NoPath)
               /\ (Printed("copy_error", NoPath) \/ Printed("need_recursive", NoPath))
    /\ MoveRan /\ exists(cmd.pre, cmd.src) /\ ~Printed("cancelled", NoPath) =>
          \/ /\ Printed("move_ok", NoPath)
             /\ cmd.src = cmd.dst \/ (Arrived /\ ~exists(fs, cmd.src))
          \/ ~Printed("move_ok", NoPath) /\ Printed("move_error", NoPath)

\* C8: move changes the filesystem or reports success, with a destination that
\* already exists, only when the overwrite prompt was accepted; when it is declined
\* the filesystem is as before and the run is reported cancelled, not successful.
C8_MoveOverwriteNeedsConfirmation ==
    MoveRan /\ exists(cmd.pre, cmd.dst) =>
        /\ fs # cmd.pre \/ Printed("move_ok", NoPath) => cmd.answers = <<TRUE>>
        /\ Declined => /\ fs = cmd.pre
                       /\ ~Printed("move_ok", NoPath)
                       /\ Printed("cancelled", NoPath)

\* A move of an existing source onto an existing destination, declined.
C8_Witness ==
    /\ MoveRan /\ exists(cmd.pre, cmd.src) /\ exists(cmd.pre, cmd.dst)
    /\ cmd.src # cmd.dst /\ Declined /\ fs = cmd.pre

\* The destination holds a copy of the source directory and nothing else.
ExactCopy ==
    \A q \in Below(cmd.dst) :
        fs[q] = IF Rebase(q, cmd.dst, cmd.src) \in Paths
                THEN cmd.pre[Rebase(q, cmd.dst, cmd.src)] ELSE Absent

\* C10 as stated: a directory is copied only with the recursive flag; without it
\* the filesystem is unchanged and an error is reported; with it, after a
\* successful copy the destination holds exactly the source's entries.
C10_AsStated ==
    CopyRan /\ is_dir(cmd.pre, cmd.src) =>
        /\ fs # cmd.pre => cmd.recursive
        /\ ~cmd.recursive => fs = cmd.pre /\ Printed("need_recursive", NoPath)
        /\ cmd.recursive /\ Printed("copy_ok", NoPath) /\ ~IsPrefix(cmd.src, cmd.dst)
              => ExactCopy

\* C10, amended: a directory is copied only with the recursive flag; without it the
\* filesystem is unchanged and, unless the overwrite prompt was declined (the run is
\* then reported cancelled), an error is reported; with it, after a successful copy
\* to a destination outside the source, the destination holds exactly the source's
\* entries and none of its own.
C10_DirectoryCopyNeedsRecursive ==
    CopyRan /\ is_dir(cmd.pre, cmd.src) =>
        /\ fs # cmd.pre => cmd.recursive
        /\ ~cmd.recursive =>
              /\ fs = cmd.pre
              /\ ~Printed("copy_ok", NoPath)
              /\ IF Declined THEN Printed("cancelled", NoPath)
                 ELSE Printed("need_recursive", NoPath)
        /\ cmd.recursive /\ Printed("copy_ok", NoPath) /\ ~IsPrefix(cmd.src, cmd.dst)
              => ExactCopy

\* A recursive copy of a directory holding a file onto a directory holding another
\* entry: the copy succeeds and the destination's own entry is gone.
C10_Witness ==
    /\ CopyRan /\ cmd.recursive /\ Printed("copy_ok", NoPath)
    /\ is_dir(cmd.pre, cmd.src) /\ is_dir(cmd.pre, cmd.dst) /\ cmd.src # cmd.dst
    /\ \E q \in Below(cmd.src) : is_file(cmd.pre, q)
                                    /\ fs[Rebase(q, cmd.src, cmd.dst)] = cmd.pre[q]
    /\ \E q \in Below(cmd.dst) : exists(cmd.pre, q) /\ ~exists(fs, q)
    /\ ExactCopy

(***************************************************************************)
(* The directory lister.  The directory listed holds up to three entries;  *)
(* iterdir yields them in an order of the operating system's choosing, and *)
(* list.sort is stable.                                                    *)
(***************************************************************************)
\* The largest st_size and the latest st_mtime of an entry.
MaxSize == 1

MaxTime == 1

\* The name 'B.Z'.
NameUpperBDotZ == <<66, 46, 90>>

ListNames == {NameLowerA, NameUpperBDotZ, NameDotH}

SortFields == {"name", "size", "modified", "type"}

\* What a name of the directory is: nothing, an entry whose stat raises, or a
\* file or directory of some size and modification time.
EntryStates ==
    {[kind |-> k, size |-> 0, mtime |-> 0] : k \in {"none", "error"}}
        \cup [kind : {"file", "dir"}, size : 0..MaxSize, mtime : 0..MaxTime]

Listings == [ListNames -> EntryStates]

\* str.rfind('.'), counted from 1; 0 when there is no dot.
rfind_dot(name) ==
    LET dots == {i \in 1..Len(name) : name[i] = 46}
    IN IF dots = {} THEN 0 ELSE CHOOSE i \in dots : \A j \in dots : j <= i

\* Path.suffix: the name from its last dot on, unless that dot is first or last.
suffix(name) ==
    LET i == rfind_dot(name)
    IN IF i > 1 /\ i < Len(name) THEN SubSeq(name, i, Len(name)) ELSE <<>>

\* get_file_info, the fields the lister reads.
get_file_info(f, name) ==
    IF f[name].kind = "error" THEN [error |-> TRUE, name |-> name]
    ELSE [name |-> name, size |-> f[name].size, modified |-> f[name].mtime,
          is_dir |-> f[name].kind = "dir", is_file |-> f[name].kind = "file",
          suffix |-> lower(suffix(name))]

\* The orders in which iterdir may yield the entries of the directory.
Orders(f) ==
    LET S == {n \in ListNames : f[n].kind # "none"}
    IN {o \in [1..Cardinality(S) -> S] : \A i, j \in DOMAIN o : o[i] = o[j] => i = j}

\* The loop of lines 85-91: hidden names and entries whose stat raised are left out.
RECURSIVE Collect(_, _, _)
Collect(f, order, show_hidden) ==
    IF order = <<>> THEN <<>>
    ELSE LET name == Head(order)
             rest == Collect(f, Tail(order), show_hidden)
             info == get_file_info(f, name)
         IN IF ~show_hidden /\ startswith_dot(name) THEN rest
            ELSE IF "error" \in DOMAIN info THEN rest
            ELSE <<info>> \o rest

\* The keys of lines 99 and 101, compared as Python compares tuples.
TypeKeyLess(x, y) ==
    IF x.is_file # y.is_file THEN y.is_file ELSE StrLess(x.suffix, y.suffix)

NameKeyLess(x, y) ==
    IF x.is_file # y.is_file THEN y.is_file
    ELSE StrLess(lower(x.name), lower(y.name))

\* list.sort(key=...): ascending and stable; less holds the pairs <<x, y>> of
\* items with the key of x below the key of y.
StableSort(seq, less) ==
    LET n == Len(seq)
        rank(i) == Cardinality({j \in 1..n :
                       \/ <<seq[j], seq[i]>> \in less
                       \/ j < i /\ <<seq[i], seq[j]>> \notin less}) + 1
    IN [k \in 1..n |-> seq[CHOOSE i \in 1..n : rank(i) = k]]

TimesOf(seq) == [i \in 1..Len(seq) |-> seq[i].modified]

\* list_directory, the directory being readable.
list_directory(f, order, show_hidden, sort_by) ==
    LET items == Collect(f, order, show_hidden)
    IN CASE sort_by = "size" -> SortDescending(items, SizesOf(items))
         [] sort_by = "modified" -> SortDescending(items, TimesOf(items))
         [] sort_by = "type" ->
                StableSort(items, {p \in Range(items) \X Range(items) :
                                      TypeKeyLess(p[1], p[2])})
         [] OTHER ->
                StableSort(items, {p \in Range(items) \X Range(items) :
                                      NameKeyLess(p[1], p[2])})

\* The list command's call of list_directory; denied is iterdir raising
\* PermissionError on the directory itself.
List ==
    /\ Fresh
    /\ \E show_hidden \in BOOLEAN, sort_by \in SortFields, order \in Orders(fs),
          denied \in BOOLEAN :
          /\ listing' = [pc |-> "done", sort_by |-> sort_by, order |-> order,
                         denied |-> denied,
                         items |-> IF denied THEN <<>>
                                   ELSE list_directory(fs, order, show_hidden, sort_by)]
          /\ out' = IF denied THEN <<Msg("permission_denied", NoPath)>> ELSE <<>>
          /\ cmd' = [NoCmd EXCEPT !.op = "list", !.show_hidden = show_hidden,
                        !.pre = fs]
    /\ UNCHANGED <<fs, tree, stats, arch, dest, hasher>>

InitList ==
    /\ fs \in Listings
    /\ out = <<>>
    /\ cmd = NoCmd
    /\ tree = <<>>
    /\ stats = NoStats
    /\ arch = NoArchive
    /\ dest = <<>>
    /\ listing = NoListing
    /\ hasher = NoHash

NextList == List

SpecList == InitList /\ [][NextList]_vars

(***************************************************************************)
(* Claims about the directory lister.                                      *)
(***************************************************************************)
ListRan == listing.pc = "done" /\ ~listing.denied

Before(i, j) == i \in DOMAIN listing.items /\ j \in DOMAIN listing.items /\ i < j

\* C11: the 'name' sort is a pure case-insensitive comparison of names, with no
\* grouping of directories before files; the 'type' sort places directories
\* before files; the 'size' and 'modified' sorts are descending.
C11_ListerSort ==
    ListRan =>
      \A i, j \in DOMAIN listing.items : i < j =>
        LET x == listing.items[i]
            y == listing.items[j]
        IN /\ listing.sort_by = "name" => ~StrLess(lower(y.name), lower(x.name))
           /\ listing.sort_by = "type" => ~(x.is_file /\ y.is_dir)
           /\ listing.sort_by = "size" => x.size >= y.size
           /\ listing.sort_by = "modified" => x.modified >= y.modified

(***************************************************************************)
(* The hasher.  One action per call of f.read(4096); the file is a stream  *)
(* of bytes of a given length, and the digest of its first n bytes under   *)
(* an algorithm is a value of its own for every n (no collisions).         *)
(***************************************************************************)
\* The most full chunks in a file.
MaxChunks == 2

\* The 4096 of f.read(4096).
ChunkSize == 4096

Algorithms == {"md5", "sha1", "sha256", "sha512"}

\* Lengths around the chunk boundaries.
FileSizes ==
    {n \in 0..(MaxChunks * ChunkSize + 1) :
        \E k \in 0..MaxChunks, d \in {-1, 0, 1} : n = k * ChunkSize + d}

\* What the path given to the hash command is.
HashTargets ==
    {[kind |-> k, size |-> 0] : k \in {"none", "dir"}}
        \cup [kind : {"file"}, size : FileSizes]

\* hash_func.hexdigest(), n bytes of the file having been fed to hash_func.
hexdigest(algorithm, n) == [kind |-> "hex", algorithm |-> algorithm, bytes |-> n]

\* The string "Error: ..." of line 78.
ErrorString == [kind |-> "error", algorithm |-> "", bytes |-> 0]

\* A plausible slip: the handler returns what was digested so far.
except_returns_digest(algorithm, fed) == hexdigest(algorithm, fed)

\* The except clause of lines 77-78.
except_Exception(algorithm, fed) == ErrorString

\* The hash command on a path that is missing or not a regular file.
HashRefused ==
    /\ Fresh /\ hasher.pc = "idle"
    /\ fs.kind # "file"
    /\ out' = <<Msg(IF fs.kind = "none" THEN "not_exist" ELSE "not_a_file", NoPath)>>
    /\ cmd' = [NoCmd EXCEPT !.op = "hash", !.pre = fs]
    /\ UNCHANGED <<fs, tree, stats, arch, dest, listing, hasher>>

\* open(file_path, 'rb') returns.
HashOpen ==
    /\ Fresh /\ hasher.pc = "idle"
    /\ fs.kind = "file"
    /\ \E algorithm \in Algorithms :
          hasher' = [pc |-> "reading", algorithm |-> algorithm, pos |-> 0,
                     fed |-> 0, failed |-> FALSE, eof |-> FALSE,
                     result |-> ErrorString]
    /\ cmd' = [NoCmd EXCEPT !.op = "hash", !.pre = fs]
    /\ UNCHANGED <<fs, out, tree, stats, arch, dest, listing>>

\* open raises: calculate_hash returns the error string, the command shows it.
HashOpenRaises ==
    /\ Fresh /\ hasher.pc = "idle"
    /\ fs.kind = "file"
    /\ \E algorithm \in Algorithms :
          hasher' = [pc |-> "done", algorithm |-> algorithm, pos |-> 0,
                     fed |-> 0, failed |-> TRUE, eof |-> FALSE,
                     result |-> except_Exception(algorithm, 0)]
    /\ out' = <<Msg("hash_panel", NoPath)>>
    /\ cmd' = [NoCmd EXCEPT !.op = "hash", !.pre = fs]
    /\ UNCHANGED <<fs, tree, stats, arch, dest, listing>>

\* f.read(4096) returns a chunk, which is fed to the digest.
HashRead ==
    /\ hasher.pc = "reading"
    /\ hasher.pos < fs.size
    /\ LET chunk == IF fs.size - hasher.pos < ChunkSize
                    THEN fs.size - hasher.pos ELSE ChunkSize
       IN hasher' = [hasher EXCEPT !.pos = @ + chunk, !.fed = @ + chunk]
    /\ UNCHANGED <<fs, out, cmd, tree, stats, arch, dest, listing>>

\* f.read(4096) raises, after zero or more chunks.
HashReadRaises ==
    /\ hasher.pc = "reading"
    /\ hasher' = [hasher EXCEPT !.pc = "done", !.failed = TRUE,
                     !.result = except_Exception(hasher.algorithm, hasher.fed)]
    /\ out' = <<Msg("hash_panel", NoPath)>>
    /\ UNCHANGED <<fs, cmd, tree, stats, arch, dest, listing>>

\* f.read(4096) returns b"": the loop ends and the digest is returned.
HashEof ==
    /\ hasher.pc = "reading"
    /\ hasher.pos = fs.size
    /\ hasher' = [hasher EXCEPT !.pc = "done", !.eof = TRUE,
                     !.result = hexdigest(hasher.algorithm, hasher.fed)]
    /\ out' = <<Msg("hash_panel", NoPath)>>
    /\ UNCHANGED <<fs, cmd, tree, stats, arch, dest, listing>>

InitHash ==
    /\ fs \in HashTargets
    /\ out = <<>>
    /\ cmd = NoCmd
    /\ tree = <<>>
    /\ stats = NoStats
    /\ arch = NoArchive
    /\ dest = <<>>
    /\ listing = NoListing
    /\ hasher = NoHash

NextHash ==
    HashRefused \/ HashOpen \/ HashOpenRaises \/ HashRead \/ HashReadRaises \/ HashEof

SpecHash == InitHash /\ [][NextHash]_vars

(***************************************************************************)
(* Claims about the hasher.                                                *)
(***************************************************************************)
HashDone == hasher.pc = "done"

\* C12: the hasher never returns a partial digest: when a read fails after zero
\* or more chunks were fed to the digest, the result is the error value and not
\* the hex digest of what was fed; a hex digest is returned only when every chunk
\* up to the end of the file was read, and it is then the digest of the whole file.
C12_NoPartialDigest ==
    HashDone =>
        /\ hasher.failed =>
              /\ hasher.result.kind = "error"
              /\ hasher.result # hexdigest(hasher.algorithm, hasher.fed)
        /\ hasher.result.kind = "hex" =>
              /\ hasher.eof /\ ~hasher.failed
              /\ hasher.fed = fs.size
              /\ hasher.result = hexdigest(hasher.algorithm, fs.size)
        /\ hasher.result.kind \in {"hex", "error"}

\* A read that fails after a full chunk of a longer file was fed to the digest.
C12_Witness ==
    /\ HashDone /\ hasher.failed
    /\ hasher.fed = ChunkSize /\ fs.size > ChunkSize
    /\ hasher.result.kind = "error"

(***************************************************************************)
(* Claims about permission errors in the tree walker.                      *)
(***************************************************************************)
\* The nodes shown under the directory p: the marker of p and the entries of p.
ChildrenOf(p) ==
    {i \in DOMAIN tree : \/ tree[i].kind = "denied" /\ tree[i].path = p
                         \/ tree[i].kind # "denied" /\ Len(tree[i].path) > 0
                                /\ Parent(tree[i].path) = p}

\* The tree without its markers.
RECURSIVE WithoutMarkers(_)
WithoutMarkers(nodes) ==
    IF nodes = <<>> THEN <<>>
    ELSE IF Head(nodes).kind = "denied" THEN WithoutMarkers(Tail(nodes))
    ELSE <<Head(nodes)>> \o WithoutMarkers(Tail(nodes))

\* The filesystem f with every locked directory readable and empty.
Unlocked(f) ==
    [p \in DOMAIN f |->
        IF \E q \in DOMAIN f : q # p /\ IsPrefix(q, p) /\ f[q] = "locked"
        THEN "none"
        ELSE IF f[p] = "locked" THEN "dir"
        ELSE f[p]]

\* The walk went down into the directory shown as node i.
Descended(i) ==
    tree[i].kind = "dir" /\ ~DepthReached(tree[i].depth + 1, cmd.max_depth)

\* C13: a permission error while descending into a subdirectory yields exactly
\* one error-marker child under that subdirectory and no other child of it, and
\* the walk goes on with the subdirectory's siblings, listed and expanded as if no
\* error had occurred: apart from the markers the tree is the tree of the same
\* filesystem with the subdirectory readable and empty.
C13_PermissionErrorMarker ==
    TreeRan =>
        /\ \A i \in DOMAIN tree :
              Descended(i) /\ cmd.pre[tree[i].path] = "locked" =>
                /\ i + 1 \in DOMAIN tree
                /\ tree[i + 1] = TreeNode(tree[i].path, tree[i].depth + 1, "denied")
                /\ ChildrenOf(tree[i].path) = {i + 1}
        /\ WithoutMarkers(tree)
              = add_tree_items(Unlocked(cmd.pre), Root, 0, cmd.max_depth,
                               cmd.show_hidden)

\* A locked subdirectory holding an entry, shown with its marker, and a sibling
\* listed after it.
C13_Witness ==
    /\ TreeRan
    /\ \E i \in DOMAIN tree :
          /\ Descended(i) /\ cmd.pre[tree[i].path] = "locked"
          /\ \E q \in TreePaths : Parent(q) = tree[i].path /\ cmd.pre[q] # "none"
          /\ i + 2 \in DOMAIN tree
          /\ tree[i + 1].kind = "denied"
          /\ tree[i + 2].depth = tree[i].depth
          /\ tree[i + 2].kind # "denied"

(***************************************************************************)
(* Declined prompts: copy and delete run from the same filesystems.        *)
(***************************************************************************)
NextPrompts == Copy \/ Delete

SpecPrompts == InitDelete /\ [][NextPrompts]_vars

\* The filesystem once delete has dealt with the first i paths of its batch.
FsAfter(i) ==
    IF i = 0 THEN cmd.pre
    ELSE DeleteOp(cmd.pre, SubSeq(cmd.paths, 1, i), cmd.recursive, cmd.force,
                  cmd.answers, cmd.denied).fs

\* The number of prompts shown up to and with position i.
PromptsUpTo(i) == Cardinality({k \in 1..i : cmd.decisions[k] # "missing"})

\* Position j confirmed the deletion of p or of a directory above p.
ConfirmedOver(j, p) == cmd.decisions[j] = "go" /\ IsPrefix(cmd.paths[j], p)

\* C14: without the force flag, a declined prompt leaves the filesystem alone.
\* Copy onto an existing destination is cancelled with the filesystem as before.
\* Delete of an existing path, declined, leaves the filesystem as that iteration
\* found it, and at the end the path and every entry below it is as before the
\* run unless the batch names that entry, or a directory above it, at a position
\* that was confirmed; the loop then goes on: every path of the batch is dealt with, and
\* each one that exists when its turn comes gets a prompt of its own, whose
\* answer alone decides whether it is deleted.
C14_DeclinedPromptFrame ==
    /\ CopyRan /\ ~cmd.force /\ exists(cmd.pre, cmd.src) /\ exists(cmd.pre, cmd.dst)
          /\ Declined
          => fs = cmd.pre /\ out = <<Msg("cancelled", NoPath)>>
    /\ DeleteRan /\ ~cmd.force =>
          /\ Len(cmd.decisions) = Len(cmd.paths)
          /\ Len(cmd.answers) = PromptsUpTo(Len(cmd.paths))
          /\ \A i \in Positions :
                LET p == cmd.paths[i] IN
                /\ cmd.decisions[i] = "missing" <=> ~exists(FsAfter(i - 1), p)
                /\ cmd.decisions[i] = "go" <=>
                      exists(FsAfter(i - 1), p) /\ cmd.answers[PromptsUpTo(i)]
                /\ cmd.decisions[i] = "declined" =>
                      /\ exists(FsAfter(i - 1), p)
                      /\ FsAfter(i) = FsAfter(i - 1)
                      /\ Printed("skipped", p)
                      /\ \A q \in Paths :
                            /\ IsPrefix(p, q)
                            /\ \A j \in Positions : ~ConfirmedOver(j, q)
                            => fs[q] = cmd.pre[q]

\* A batch of two files without the force flag: the first is declined and stays,
\* the second is prompted for, confirmed and deleted.
C14_Witness ==
    /\ DeleteRan /\ ~cmd.force /\ Len(cmd.paths) = 2
    /\ cmd.paths[1] # cmd.paths[2]
    /\ is_file(cmd.pre, cmd.paths[1]) /\ is_file(cmd.pre, cmd.paths[2])
    /\ cmd.answers = <<FALSE, TRUE>>
    /\ cmd.decisions = <<"declined", "go">>
    /\ fs[cmd.paths[1]] = cmd.pre[cmd.paths[1]]
    /\ ~exists(fs, cmd.paths[2])

====
